---------------------------- MODULE Spec2Model ----------------------------
(***************************************************************************)
(* Falling-sand cellular automaton of CellularAutomata.cpp.                *)
(*                                                                         *)
(* Units.  Times (dt, Particle.life_time) are integers in milliseconds.    *)
(* Velocities are integers in 1/1000 cell per second, so gravity * dt is   *)
(* the integer gravity * dt_ms and the code's (int) cast is a division by  *)
(* 1000 that truncates toward zero.  Halving (velocity.y /= 2.f) truncates *)
(* toward zero at the last 1/1000.                                         *)
(*                                                                         *)
(* The grid is the flat row-major vector WorldData, index y * width + x,   *)
(* with the parallel vector ColorData.  One simulation frame is modelled   *)
(* cell by cell: Update starts the frame, one step is taken per cell the   *)
(* scan loop visits, ResetPass is the second loop.                         *)
(***************************************************************************)
EXTENDS Integers, Sequences, FiniteSets, TLC

(* ---------------------------- sizes and bounds ------------------------- *)

\* grid width and height (800 x 600 in the source, scaled down)
textureWidth == 3
textureHeight == 4
\* brush radius (10.0f in the source, scaled down with the grid)
selectionRadius == 1
\* gravity, cells / s^2
gravity == 10
\* number of frames and of edit commands explored from the initial state
MaxFrames == 2
MaxEdits == 2
\* number of points one Place command samples (1..10000 in the source)
MaxPlacePoints == 1

W == textureWidth
H == textureHeight
NCells == W * H
Idx == 0 .. (NCells - 1)

\* frame times a frame may take, in ms
DtChoices == {25, 250}

(* ------------------------------- materials ----------------------------- *)

mat_id_empty == 0
mat_id_sand == 1
mat_id_water == 2
mat_id_stone == 3
mat_id_fire == 4
mat_id_smoke == 5
mat_id_steam == 6

Materials == mat_id_empty .. mat_id_steam

mat_col_empty == <<0, 0, 0, 0>>
mat_col_fire == <<150, 20, 0, 255>>
mat_col_smoke == <<50, 50, 50, 255>>
mat_col_steam == <<220, 220, 250, 255>>

\* material_selection enumerators, in declaration order
mat_sel_sand == 0
mat_sel_water == 1
mat_sel_stone == 2
mat_sel_fire == 3
mat_sel_smoke == 4
mat_sel_steam == 5

(* ------------------------------- particles ----------------------------- *)

\* Particle p = { 0 }: every member zero
ParticleZero ==
    [id |-> 0, life_time |-> 0, vx |-> 0, vy |-> 0,
     color |-> <<0, 0, 0, 0>>, upd |-> FALSE]

ParticleEmpty == [ParticleZero EXCEPT !.id = mat_id_empty, !.color = mat_col_empty]

ParticleSand == [ParticleZero EXCEPT !.id = mat_id_sand, !.color = <<204, 127, 51, 255>>]

ParticleWater == [ParticleZero EXCEPT !.id = mat_id_water, !.color = <<25, 76, 178, 255>>]

ParticleStone == [ParticleZero EXCEPT !.id = mat_id_stone, !.color = <<128, 128, 128, 255>>]

ParticleFire == [ParticleZero EXCEPT !.id = mat_id_fire, !.color = mat_col_fire]

ParticleSmoke == [ParticleZero EXCEPT !.id = mat_id_smoke, !.color = mat_col_smoke]

ParticleSteam == [ParticleZero EXCEPT !.id = mat_id_steam, !.color = mat_col_steam]

(* ------------------------------ arithmetic ----------------------------- *)

Min(a, b) == IF a < b THEN a ELSE b
Max(a, b) == IF a > b THEN a ELSE b

\* std::clamp(v, lo, hi)
Clamp(v, lo, hi) == IF v < lo THEN lo ELSE IF v > hi THEN hi ELSE v

\* (int)f for a velocity f held in 1/1000: truncation toward zero
TruncInt(v) == IF v >= 0 THEN v \div 1000 ELSE -((-v) \div 1000)

\* f /= 2.f
Half(v) == IF v >= 0 THEN v \div 2 ELSE -((-v) \div 2)

\* gravity * dt, in 1/1000 cell per second, for dt in ms
GravDt(d) == gravity * d

RECURSIVE ISqrtFrom(_, _, _)
ISqrtFrom(n, lo, hi) ==
    IF lo >= hi THEN lo
    ELSE LET mid == (lo + hi + 1) \div 2
         IN IF mid * mid <= n THEN ISqrtFrom(n, mid, hi) ELSE ISqrtFrom(n, lo, mid - 1)

\* Vector2::Length() of a particle's velocity, rounded down to 1/1000
SpeedOf(p) == ISqrtFrom(p.vx * p.vx + p.vy * p.vy, 0, 46000)

(* ------------------------------ Grid Store ----------------------------- *)

\* ComputeID: y * textureWidth + x, unsigned arithmetic converted back to int.
\* For the small magnitudes used here the int result is the exact integer.
ComputeID(x, y) == y * textureWidth + x

\* InBounds without its tests against zero, the comparisons taken as signed
InBoundsNoLower(x, y) == ~(x > (textureWidth - 1) \/ y > (textureHeight - 1))

\* InBounds(int x, int y): x > (textureWidth - 1) compares as unsigned, so a
\* negative x also fails that test; x < 0 is tested first.
InBounds(x, y) ==
    ~(x < 0 \/ x > (textureWidth - 1) \/ y < 0 \/ y > (textureHeight - 1))

\* std::vector::at: the element, or std::out_of_range
AtFaults(idx) == idx < 0 \/ idx >= NCells

\* IsEmpty without its InBounds test: a cell outside the vector reads as Empty
IsEmptyUnchecked(g, x, y) ==
    AtFaults(ComputeID(x, y)) \/ g.w[ComputeID(x, y)].id = mat_id_empty

\* The grid as a value: w = WorldData, c = ColorData, fault = an
\* out_of_range exception has been thrown
\* IsEmpty: InBounds first, and the grid is read only when it holds
IsEmpty(g, x, y) == InBounds(x, y) /\ g.w[ComputeID(x, y)].id = mat_id_empty

\* GetParticleAt: WorldData.at(ComputeID(x, y))
GetParticleAt(g, x, y) == g.w[ComputeID(x, y)]

\* WriteData: WorldData.at(idx) = p; ColorData.at(idx) = p.color
WriteData(g, idx, p) ==
    IF AtFaults(idx) THEN [g EXCEPT !.fault = TRUE]
    ELSE [g EXCEPT !.w[idx] = p, !.c[idx] = p.color]

\* a write through the pointer p = &WorldData.at(idx): ColorData is not touched
SetP(g, idx, p) == [g EXCEPT !.w[idx] = p]


(* ------------------------------ random draws --------------------------- *)

\* Values of RandomVal, each a subset of the range the code draws from that
\* holds the extremes and zero.
\* RandomVal(-2, 2): horizontal velocity of water thrown out of its cell
SplashVxDraws == {-2, 0, 2}
\* RandomVal(0, 1) == 0 ? -1.f : 1.f
KickVxDraws == {-1000, 1000}
\* RandomVal(0, 1) == 0 ? -1.2f : 1.2f
DriftVxDraws == {-1200, 1200}
\* RandomVal(-100, 100), the horizontal jitter of fire, smoke and steam
JitterDraws == {-100, 0, 100}

SetMin(S) == CHOOSE m \in S : \A n \in S : m <= n
SetMax(S) == CHOOSE m \in S : \A n \in S : m >= n

\* the outcome of one rule invocation: the grid, the branch taken, the index
\* the scanned particle was written to (-1: it was not relocated), and whether
\* the smoke loop of UpdateFire wrote a particle before the branch was taken
Res(g, b, to) == [g |-> g, branch |-> b, to |-> to, spawned |-> FALSE]

\* the swap idiom: WriteData(target, *p); WriteData(read_idx, tmp_b)
SwapLosingOccupant(g, read_idx, tgt_idx, p, tmp_b) ==
    WriteData(WriteData(g, tgt_idx, p), read_idx, ParticleEmpty)

SwapInto(g, read_idx, tgt_idx, p, tmp_b) ==
    WriteData(WriteData(g, tgt_idx, p), read_idx, tmp_b)

\* the move idiom without its second write: the particle stays in its cell too
CopyInto(g, read_idx, tgt_idx, p) == WriteData(g, tgt_idx, p)

\* the move idiom of the water rule: WriteData(target, *p);
\* WriteData(read_idx, ParticleEmpty())
MoveInto(g, read_idx, tgt_idx, p) ==
    WriteData(WriteData(g, tgt_idx, p), read_idx, ParticleEmpty)

(* --------------------------------- Sand -------------------------------- *)

\* the speed test with a margin of 1.f instead of 10.f
SpeedExceedsByOne(b, a) == SpeedOf(b) - SpeedOf(a) > 1000

\* velocity.Length() of b exceeds that of a by more than 10.f
SpeedExceeds(b, a) == SpeedOf(b) - SpeedOf(a) > 10000

\* the splash loops: for i in -10..-1, the first j in -10..9 with
\* IsEmpty(vi_x + j, vi_y + i) receives tmp_b; break leaves the inner loop only
RECURSIVE SplashRows(_, _, _, _, _)
SplashRows(g, vi_x, vi_y, i, tmp_b) ==
    IF i >= 0 THEN g
    ELSE LET js == {j \in -10 .. 9 : IsEmpty(g, vi_x + j, vi_y + i)}
             g2 == IF js = {} THEN g
                   ELSE WriteData(g, ComputeID(vi_x + SetMin(js), vi_y + i), tmp_b)
         IN SplashRows(g2, vi_x, vi_y, i + 1, tmp_b)

\* UpdateSand(x, y, gt), on the grid g0 whose cell (x, y) has been aged
UpdateSand(g0, x, y, d) ==
    LET read_idx == ComputeID(x, y)
        p0 == g0.w[read_idx]
        vy1 == Clamp(p0.vy + GravDt(d), -10000, 10000)
        blocked == InBounds(x, y + 1) /\ ~IsEmpty(g0, x, y + 1)
                   /\ GetParticleAt(g0, x, y + 1).id # mat_id_water
        p == [p0 EXCEPT !.vy = IF blocked THEN Half(vy1) ELSE vy1]
        g == SetP(g0, read_idx, p)
        vi_x == x + TruncInt(p.vx)
        vi_y == y + TruncInt(p.vy)
        b_idx == ComputeID(x, y + 1)
        br_idx == ComputeID(x + 1, y + 1)
        bl_idx == ComputeID(x - 1, y + 1)
        lx == 0
        ly == 0
        tmp_a == p
        pf == [p EXCEPT !.vy = p.vy + GravDt(d)]
    IN IF InBounds(vi_x, vi_y)
          /\ (IsEmpty(g, vi_x, vi_y)
              \/ (g.w[ComputeID(vi_x, vi_y)].id = mat_id_water
                  /\ ~g.w[ComputeID(vi_x, vi_y)].upd
                  /\ SpeedExceeds(g.w[ComputeID(vi_x, vi_y)], tmp_a)))
       THEN LET tmp_b == g.w[ComputeID(vi_x, vi_y)]
            IN IF tmp_b.id = mat_id_water
               THEN {LET tb == [tmp_b EXCEPT !.vx = rx * 1000, !.vy = -4000]
                         ga == WriteData(g, ComputeID(vi_x, vi_y), tmp_a)
                         gb == SplashRows(ga, vi_x, vi_y, -10, tb)
                     IN Res(WriteData(gb, read_idx, ParticleEmpty), "sand_splash",
                            ComputeID(vi_x, vi_y)) : rx \in SplashVxDraws}
               ELSE {Res(SwapInto(g, read_idx, ComputeID(vi_x, vi_y), tmp_a, tmp_b),
                         "sand_velocity", ComputeID(vi_x, vi_y))}
       ELSE IF InBounds(x, y + 1)
               /\ (IsEmpty(g, x, y + 1) \/ g.w[b_idx].id = mat_id_water)
       THEN {Res(SwapInto(SetP(g, read_idx, pf), read_idx, b_idx, pf,
                          GetParticleAt(g, x, y + 1)), "sand_fall", b_idx)}
       ELSE IF InBounds(x - 1, y + 1)
               /\ (IsEmpty(g, x - 1, y + 1) \/ g.w[bl_idx].id = mat_id_water)
       THEN {LET pk == [pf EXCEPT !.vx = k]
             IN Res(SwapInto(SetP(g, read_idx, pk), read_idx, bl_idx, pk,
                             GetParticleAt(g, x - 1, y + 1)), "sand_diag_left", bl_idx)
             : k \in KickVxDraws}
       ELSE IF InBounds(x + 1, y + 1)
               /\ (IsEmpty(g, x + 1, y + 1) \/ g.w[br_idx].id = mat_id_water)
       THEN {LET pk == [pf EXCEPT !.vx = k]
             IN Res(SwapInto(SetP(g, read_idx, pk), read_idx, br_idx, pk,
                             GetParticleAt(g, x + 1, y + 1)), "sand_diag_right", br_idx)
             : k \in KickVxDraws}
       ELSE \* RandomVal(0, 10) == 0: swap with the cell (lx, ly) = (0, 0)
            {Res(SwapInto(g, read_idx, ComputeID(lx, ly), p, GetParticleAt(g, lx, ly)),
                 "sand_origin_swap", ComputeID(lx, ly)),
             Res(g, "sand_none", -1)}

(* -------------------------------- Water -------------------------------- *)

\* true when no in-bounds neighbour of (x, y) is occupied
CompletelySurrounded(g, x, y) ==
    \A n \in {<<0, -1>>, <<0, 1>>, <<-1, 0>>, <<1, 0>>,
              <<-1, -1>>, <<1, -1>>, <<-1, 1>>, <<1, 1>>} :
        ~(InBounds(x + n[1], y + n[2]) /\ ~IsEmpty(g, x + n[1], y + n[2]))

\* the lateral spread loops: for i in 0 .. fall_rate - 1, for j from
\* spread_rate down to 1, the first empty cell of (x - j, y + i), (x + j, y + i)
\* is swapped with the cell at read_idx; break leaves the inner loop only.
\* Returns <<grid, found, first target>>.
RECURSIVE LateralRows(_, _, _, _, _, _, _)
LateralRows(g, x, y, i, fall_rate, found, to) ==
    IF i >= fall_rate THEN <<g, found, to>>
    ELSE LET read_idx == ComputeID(x, y)
             js == {j \in 1 .. 5 : IsEmpty(g, x - j, y + i) \/ IsEmpty(g, x + j, y + i)}
         IN IF js = {} THEN LateralRows(g, x, y, i + 1, fall_rate, found, to)
            ELSE LET j == SetMax(js)
                     tx == IF IsEmpty(g, x - j, y + i) THEN x - j ELSE x + j
                     tmp == GetParticleAt(g, tx, y + i)
                     g2 == SwapInto(g, read_idx, ComputeID(tx, y + i), g.w[read_idx], tmp)
                 IN LateralRows(g2, x, y, i + 1, fall_rate, TRUE,
                                IF found THEN to ELSE ComputeID(tx, y + i))

\* UpdateWater(x, y, gt), on the grid g0 whose cell (x, y) has been aged
UpdateWater(g0, x, y, d) ==
    LET read_idx == ComputeID(x, y)
        fall_rate == 2
        spread_rate == 5
        p0 == g0.w[read_idx]
        vy1 == Clamp(p0.vy + GravDt(d), -10000, 10000)
        blocked == InBounds(x, y + 1) /\ ~IsEmpty(g0, x, y + 1)
        \* the colour gate rewrites r, g, b with the constructor's values
        p == [p0 EXCEPT !.vy = IF blocked THEN Half(vy1) ELSE vy1, !.upd = TRUE,
                        !.color = <<25, 76, 178, p0.color[4]>>]
        pn == [p0 EXCEPT !.vy = IF blocked THEN Half(vy1) ELSE vy1, !.upd = TRUE]
        u == fall_rate
        vx == TruncInt(p.vx)
        vy == TruncInt(p.vy)
        lx == 0
        ly == 0
        Rule(q, r) ==
            LET g == SetP(g0, read_idx, q)
                l == -r
                v_idx == ComputeID(x + vx, y + vy)
                b_idx == ComputeID(x, y + u)
                bl_idx == ComputeID(x + l, y + u)
                br_idx == ComputeID(x + r, y + u)
                qf == [q EXCEPT !.vy = q.vy + GravDt(d)]
            IN IF InBounds(x + vx, y + vy) /\ IsEmpty(g, x + vx, y + vy)
               THEN {Res(MoveInto(g, read_idx, v_idx, q), "water_velocity", v_idx)}
               ELSE IF IsEmpty(g, x, y + u)
               THEN {Res(MoveInto(g, read_idx, b_idx, q), "water_fall", b_idx)}
               ELSE IF IsEmpty(g, x + r, y + u)
               THEN {Res(MoveInto(g, read_idx, br_idx, q), "water_diag_r", br_idx)}
               ELSE IF IsEmpty(g, x + l, y + u)
               THEN {Res(MoveInto(g, read_idx, bl_idx, q), "water_diag_l", bl_idx)}
               ELSE IF InBounds(x, y + u) /\ IsEmpty(g, x, y + u)
               THEN {Res(SwapInto(SetP(g, read_idx, qf), read_idx, b_idx, qf,
                                  GetParticleAt(g, x, y + u)), "water_fall_swap", b_idx)}
               ELSE IF InBounds(x + l, y + u) /\ IsEmpty(g, x + l, y + u)
               THEN {LET qk == [qf EXCEPT !.vx = k]
                     IN Res(SwapInto(SetP(g, read_idx, qk), read_idx, bl_idx, qk,
                                     GetParticleAt(g, x + l, y + u)), "water_diag_l_swap", bl_idx)
                     : k \in KickVxDraws}
               ELSE IF InBounds(x + r, y + u) /\ IsEmpty(g, x + r, y + u)
               THEN {LET qk == [qf EXCEPT !.vx = k]
                     IN Res(SwapInto(SetP(g, read_idx, qk), read_idx, br_idx, qk,
                                     GetParticleAt(g, x + r, y + u)), "water_diag_r_swap", br_idx)
                     : k \in KickVxDraws}
               ELSE \* RandomVal(0, 10) == 0: swap with the cell (lx, ly) = (0, 0)
                    {Res(SwapInto(g, read_idx, ComputeID(lx, ly), q, GetParticleAt(g, lx, ly)),
                         "water_origin_swap", ComputeID(lx, ly))}
                    \cup
                    (IF CompletelySurrounded(g, x, y)
                     THEN {Res(WriteData(g, read_idx, q), "water_surrounded", -1)}
                     ELSE LET lr == LateralRows(g, x, y, 0, fall_rate, FALSE, -1)
                          IN IF lr[2] THEN {Res(lr[1], "water_spread", lr[3])}
                             ELSE {Res(WriteData(lr[1], read_idx, q), "water_stay", -1)})
    IN UNION {Rule(q, r) : q \in {p, pn}, r \in {spread_rate, -spread_rate}}

(* --------------------------------- Fire -------------------------------- *)

\* RandomVal(0, 3), the hue picked when the colour gate opens
HueDraws == {0, 3}
\* RandomVal(-5, -1) and RandomVal(-5, 5), the corner of the steam window
QuenchRyDraws == {-5, -1}
QuenchRxDraws == {-5, 0}
\* RandomVal(-10, -1), the first row of the jump window
JumpRhDraws == {-10, -2, -1}
\* number of loop iterations in which RandomVal(0, 500) == 0 (0 .. 10 in the
\* code; only three cells can receive smoke)
SpawnDraws == {0, 1, 3}

FireHue(n) ==
    CASE n = 0 -> <<255, 80, 20, 255>>
      [] n = 1 -> <<250, 150, 10, 255>>
      [] n = 2 -> <<200, 150, 0, 255>>
      [] OTHER -> <<100, 50, 2, 255>>

\* IsInWater(x, y, &lx, &ly): <<found, lx, ly>>, the cells tried in the
\* order of the code
IsInWaterOrder ==
    <<(<<0, 0>>), (<<0, -1>>), (<<0, 1>>), (<<-1, 0>>), (<<-1, -1>>), (<<-1, 1>>),
      (<<1, 0>>), (<<1, -1>>), (<<1, 1>>)>>

\* the neighbour search looking for Sand where the code looks for Water
IsInSand(g, x, y) ==
    LET hits == {k \in 1 .. Len(IsInWaterOrder) :
                    LET n == IsInWaterOrder[k]
                    IN InBounds(x + n[1], y + n[2])
                       /\ GetParticleAt(g, x + n[1], y + n[2]).id = mat_id_sand}
    IN IF hits = {} THEN <<FALSE, 0, 0>>
       ELSE LET n == IsInWaterOrder[SetMin(hits)] IN <<TRUE, x + n[1], y + n[2]>>

IsInWater(g, x, y) ==
    LET hits == {k \in 1 .. Len(IsInWaterOrder) :
                    LET n == IsInWaterOrder[k]
                    IN InBounds(x + n[1], y + n[2])
                       /\ GetParticleAt(g, x + n[1], y + n[2]).id = mat_id_water}
    IN IF hits = {} THEN <<FALSE, 0, 0>>
       ELSE LET n == IsInWaterOrder[SetMin(hits)] IN <<TRUE, x + n[1], y + n[2]>>

\* WriteData(i, p) for every index i of the set S
RECURSIVE WriteEach(_, _, _)
WriteEach(g, S, p) ==
    IF S = {} THEN g
    ELSE LET i == SetMin(S) IN WriteEach(WriteData(g, i, p), S \ {i}, p)

\* the quench branch: steam into every empty cell of the window rows
\* y + ry down to y - 4, columns x + rx .. x + 4; then the fire cell becomes
\* Steam and the water cell (lx, ly) becomes Empty
FireQuench(g, x, y, lx, ly, ry, rx) ==
    LET read_idx == ComputeID(x, y)
        cells == {ComputeID(x + j, y + i) : <<i, j>> \in
                    {c \in (-4 .. ry) \X (rx .. 4) :
                        InBounds(x + c[2], y + c[1]) /\ IsEmpty(g, x + c[2], y + c[1])}}
        g2 == WriteEach(g, cells, ParticleSteam)
        g3 == WriteData(g2, read_idx, ParticleEmpty)
        g4 == WriteData(g3, read_idx, ParticleSteam)
    IN WriteData(g4, ComputeID(lx, ly), ParticleEmpty)

\* the jump loops: for i in rh .. -1, the first empty cell (x + j, y + i), j in
\* the order r selects, receives *p and the cell at read_idx becomes Empty;
\* break leaves the inner loop only.  Returns <<grid, first target>>.
RECURSIVE FireJumpRows(_, _, _, _, _, _)
FireJumpRows(g, x, y, i, r, to) ==
    IF i >= 0 THEN <<g, to>>
    ELSE LET read_idx == ComputeID(x, y)
             js == {j \in (IF r = 1 THEN -3 .. 2 ELSE -2 .. 3) :
                        InBounds(x + j, y + i) /\ IsEmpty(g, x + j, y + i)}
         IN IF js = {} THEN FireJumpRows(g, x, y, i + 1, r, to)
            ELSE LET j == IF r = 1 THEN SetMin(js) ELSE SetMax(js)
                     t == ComputeID(x + j, y + i)
                     g2 == WriteData(WriteData(g, t, g.w[read_idx]), read_idx, ParticleEmpty)
                 IN FireJumpRows(g2, x, y, i + 1, r, IF to = -1 THEN t ELSE to)

\* one iteration of the smoke loop without its IsEmpty tests
FireSpawnOneOverwriting(g, x, y) ==
    IF InBounds(x, y - 1)
    THEN WriteData(g, ComputeID(x, y - 1), ParticleSmoke)
    ELSE IF InBounds(x + 1, y - 1)
    THEN WriteData(g, ComputeID(x + 1, y - 1), ParticleSmoke)
    ELSE IF InBounds(x - 1, y - 1)
    THEN WriteData(g, ComputeID(x - 1, y - 1), ParticleSmoke)
    ELSE g

\* one iteration of the smoke loop in which RandomVal(0, 500) == 0
FireSpawnOne(g, x, y) ==
    IF InBounds(x, y - 1) /\ IsEmpty(g, x, y - 1)
    THEN WriteData(g, ComputeID(x, y - 1), ParticleSmoke)
    ELSE IF InBounds(x + 1, y - 1) /\ IsEmpty(g, x + 1, y - 1)
    THEN WriteData(g, ComputeID(x + 1, y - 1), ParticleSmoke)
    ELSE IF InBounds(x - 1, y - 1) /\ IsEmpty(g, x - 1, y - 1)
    THEN WriteData(g, ComputeID(x - 1, y - 1), ParticleSmoke)
    ELSE g

RECURSIVE FireSpawn(_, _, _, _)
FireSpawn(g, x, y, k) == IF k = 0 THEN g ELSE FireSpawn(FireSpawnOne(g, x, y), x, y, k - 1)

\* the ordered movement checks of UpdateFire; vi is the velocity target
\* computed before the smoke loop
FireMove(g, x, y, vi_x, vi_y) ==
    LET read_idx == ComputeID(x, y)
        p == g.w[read_idx]
        b_idx == ComputeID(x, y + 1)
        br_idx == ComputeID(x + 1, y + 1)
        bl_idx == ComputeID(x - 1, y + 1)
        Swap(b, t) == Res(SwapInto(g, read_idx, t, p, g.w[t]), b, t)
    IN IF InBounds(vi_x, vi_y)
          /\ (IsEmpty(g, vi_x, vi_y)
              \/ GetParticleAt(g, vi_x, vi_y).id = mat_id_fire
              \/ GetParticleAt(g, vi_x, vi_y).id = mat_id_smoke)
       THEN Swap("fire_velocity", ComputeID(vi_x, vi_y))
       ELSE IF InBounds(x, y + 1) /\ (IsEmpty(g, x, y + 1) \/ g.w[b_idx].id = mat_id_water)
       THEN Swap("fire_fall", b_idx)
       ELSE IF InBounds(x - 1, y + 1)
               /\ (IsEmpty(g, x - 1, y + 1) \/ g.w[bl_idx].id = mat_id_water)
       THEN Swap("fire_diag_left", bl_idx)
       ELSE IF InBounds(x + 1, y + 1)
               /\ (IsEmpty(g, x + 1, y + 1) \/ g.w[br_idx].id = mat_id_water)
       THEN Swap("fire_diag_right", br_idx)
       ELSE IF InBounds(x - 1, y - 1) /\ g.w[ComputeID(x - 1, y - 1)].id = mat_id_water
       THEN Swap("fire_up_left_water", ComputeID(x - 1, y - 1))
       ELSE IF InBounds(x + 1, y - 1) /\ g.w[ComputeID(x + 1, y - 1)].id = mat_id_water
       THEN Swap("fire_up_right_water", ComputeID(x + 1, y - 1))
       ELSE IF InBounds(x, y - 1) /\ g.w[ComputeID(x, y - 1)].id = mat_id_water
       THEN Swap("fire_up_water", ComputeID(x, y - 1))
       ELSE Res(WriteData(g, read_idx, p), "fire_stay", -1)

\* UpdateFire from the velocity damping (line 701) on: g holds the particle
\* with its new velocity and colour
FireRest(g1, x, y) ==
    LET read_idx == ComputeID(x, y)
        p1 == g1.w[read_idx]
        \* (id != water || id != smoke) holds of every id
        damp == InBounds(x, y + 1) /\ ~IsEmpty(g1, x, y + 1)
                /\ (GetParticleAt(g1, x, y + 1).id # mat_id_water
                    \/ GetParticleAt(g1, x, y + 1).id # mat_id_smoke)
        p == IF damp THEN [p1 EXCEPT !.vy = Half(p1.vy)] ELSE p1
        g == SetP(g1, read_idx, p)
        kill == IF InBounds(x, y + 3) /\ GetParticleAt(g, x, y + 3).id = mat_id_fire
                THEN {Res(WriteData(WriteData(g, ComputeID(x, y + 3), p),
                                    read_idx, ParticleEmpty),
                          "fire_kill_below", ComputeID(x, y + 3))}
                ELSE {}
        vi_x == x + TruncInt(p.vx)
        vi_y == y + TruncInt(p.vy)
    IN kill \cup
       (IF InBounds(x, y + 1) /\ GetParticleAt(g, x, y + 1).id = mat_id_fire
           /\ InBounds(x, y - 1) /\ GetParticleAt(g, x, y - 1).id = mat_id_empty
        THEN \* RandomVal(0, 10) == 0 * life_time < 10.f && life_time > 1.f parses
             \* as RandomVal(0, 10) == ((0 * life_time) < 10.f) && life_time > 1.f
             {Res(g, "fire_jump_none", -1)}
             \cup (IF p.life_time > 1000
                   THEN {LET jr == FireJumpRows(g, x, y, rh, r, -1)
                         IN Res(jr[1], "fire_jump", jr[2])
                         : rh \in JumpRhDraws, r \in {0, 1}}
                   ELSE {})
        ELSE {LET gs == FireSpawn(g, x, y, k)
              IN [FireMove(gs, x, y, vi_x, vi_y) EXCEPT !.spawned = (gs # g)]
              : k \in SpawnDraws})

\* UpdateFire(x, y, gt), on the grid g0 whose cell (x, y) has been aged
UpdateFire(g0, x, y, d) ==
    LET read_idx == ComputeID(x, y)
        p0 == g0.w[read_idx]
    IN IF p0.upd THEN {Res(g0, "fire_skip", -1)}
       ELSE LET pU == [p0 EXCEPT !.upd = TRUE]
                gU == SetP(g0, read_idx, pU)
                Body(jit, hue) ==
                    LET col == IF hue = -1 THEN pU.color ELSE FireHue(hue)
                        p1 == [pU EXCEPT
                                 !.vy = Clamp(pU.vy - (GravDt(d) \div 5), -5000, 0),
                                 !.vx = Clamp(pU.vx + jit * 5, -500, 500),
                                 !.color = <<IF pU.life_time < 20 THEN 200 ELSE 255,
                                             col[2], col[3], col[4]>>]
                        g1 == SetP(gU, read_idx, p1)
                        iw == IsInWater(g1, x, y)
                    IN (IF iw[1]
                        THEN {Res(FireQuench(g1, x, y, iw[2], iw[3], ry, rx),
                                  "fire_quench", -1)
                              : ry \in QuenchRyDraws, rx \in QuenchRxDraws}
                        ELSE {})
                       \cup FireRest(g1, x, y)
                \* RandomVal(0, (int)(life_time * 100.f)) % 200 == 0
                hues == (IF (pU.life_time * 100) \div 1000 = 0 THEN {} ELSE {-1})
                        \cup HueDraws
            IN (IF pU.life_time > 200
                THEN {Res(WriteData(gU, read_idx, ParticleEmpty), "fire_extinguish", -1)}
                ELSE {})
               \cup UNION {Body(jit, hue) : jit \in JitterDraws, hue \in hues}

(* ----------------------------- Smoke and Steam ------------------------- *)

\* the velocity update shared by UpdateSmoke and UpdateSteam: the particle
\* marked updated, with its clamped, jittered and damped velocity
RisingVelocity(g0, x, y, d, jit) ==
    LET p0 == g0.w[ComputeID(x, y)]
        vy1 == Clamp(p0.vy - GravDt(d), -2000, 10000)
        vx1 == Clamp(p0.vx + jit * 10, -1000, 1000)
        damp == InBounds(x, y - 1) /\ ~IsEmpty(g0, x, y - 1)
                /\ GetParticleAt(g0, x, y - 1).id # mat_id_water
    IN [p0 EXCEPT !.upd = TRUE, !.vx = vx1, !.vy = IF damp THEN Half(vy1) ELSE vy1]

\* "Try to throw water out": the water at the velocity target is marked
\* updated, given the velocity (rx, vyOut) and swapped with the particle
ThrowWater(g, read_idx, tgt_idx, p, tmp_b, rx, vyOut) ==
    SwapInto(g, read_idx, tgt_idx, p,
             [tmp_b EXCEPT !.upd = TRUE, !.vx = rx * 1000, !.vy = vyOut])

\* UpdateSmoke(x, y, gt), on the grid g0 whose cell (x, y) has been aged
UpdateSmoke(g0, x, y, d) ==
    LET read_idx == ComputeID(x, y)
        p0 == g0.w[read_idx]
        Passable(cx, cy) ==
            InBounds(cx, cy) /\ GetParticleAt(g0, cx, cy).id # mat_id_smoke
            /\ GetParticleAt(g0, cx, cy).id # mat_id_stone
        Body(jit) ==
            LET p == RisingVelocity(g0, x, y, d, jit)
                g == SetP(g0, read_idx, p)
                vi_x == x + TruncInt(p.vx)
                vi_y == y + TruncInt(p.vy)
                pf == [p EXCEPT !.vy = p.vy - GravDt(d)]
                Swap(q, b, t) == Res(SwapInto(SetP(g, read_idx, q), read_idx, t, q, g.w[t]), b, t)
            IN IF InBounds(vi_x, vi_y) /\ GetParticleAt(g, vi_x, vi_y).id # mat_id_smoke
               THEN LET t == ComputeID(vi_x, vi_y)
                        tmp_b == g.w[t]
                    IN IF tmp_b.id = mat_id_water
                       THEN {Res(ThrowWater(g, read_idx, t, p, tmp_b, rx, -3000),
                                 "smoke_throw_water", t) : rx \in SplashVxDraws}
                       ELSE IF IsEmpty(g, vi_x, vi_y)
                       THEN {Swap(p, "smoke_velocity", t)}
                       ELSE {Res(g, "smoke_blocked", -1)}
               ELSE IF Passable(x, y - 1)
               THEN {Swap(pf, "smoke_rise", ComputeID(x, y - 1))}
               ELSE IF Passable(x - 1, y - 1)
               THEN {Swap([pf EXCEPT !.vx = k], "smoke_diag_left", ComputeID(x - 1, y - 1))
                     : k \in DriftVxDraws}
               ELSE IF Passable(x + 1, y - 1)
               THEN {Swap([pf EXCEPT !.vx = k], "smoke_diag_right", ComputeID(x + 1, y - 1))
                     : k \in DriftVxDraws}
               ELSE IF Passable(x + 1, y)
               THEN {Swap(p, "smoke_right", ComputeID(x + 1, y))}
               ELSE IF Passable(x - 1, y)
               THEN {Swap(p, "smoke_left", ComputeID(x - 1, y))}
               ELSE {Res(WriteData(g, read_idx, p), "smoke_stay", -1)}
    IN IF p0.life_time > 10000
       THEN {Res(WriteData(g0, read_idx, ParticleEmpty), "smoke_decay", -1)}
       ELSE IF p0.upd THEN {Res(g0, "smoke_skip", -1)}
       ELSE UNION {Body(jit) : jit \in JitterDraws}

\* UpdateSteam(x, y, gt), on the grid g0 whose cell (x, y) has been aged
UpdateSteam(g0, x, y, d) ==
    LET read_idx == ComputeID(x, y)
        p0 == g0.w[read_idx]
        Passable(cx, cy) ==
            InBounds(cx, cy)
            /\ (IsEmpty(g0, cx, cy) \/ GetParticleAt(g0, cx, cy).id = mat_id_water
                \/ GetParticleAt(g0, cx, cy).id = mat_id_fire)
        Body(jit) ==
            LET p == RisingVelocity(g0, x, y, d, jit)
                g == SetP(g0, read_idx, p)
                vi_x == x + TruncInt(p.vx)
                vi_y == y + TruncInt(p.vy)
                pf == [p EXCEPT !.vy = p.vy - GravDt(d)]
                Swap(q, b, t) == Res(SwapInto(SetP(g, read_idx, q), read_idx, t, q, g.w[t]), b, t)
            IN IF Passable(vi_x, vi_y)
               THEN LET t == ComputeID(vi_x, vi_y)
                        tmp_b == g.w[t]
                    IN IF tmp_b.id = mat_id_water
                       THEN {Res(ThrowWater(g, read_idx, t, p, tmp_b, rx, -3000),
                                 "steam_throw_water", t) : rx \in SplashVxDraws}
                       ELSE IF IsEmpty(g, vi_x, vi_y)
                       THEN {Swap(p, "steam_velocity", t)}
                       ELSE {Res(g, "steam_blocked", -1)}
               ELSE IF Passable(x, y - 1)
               THEN {Swap(pf, "steam_rise", ComputeID(x, y - 1))}
               ELSE IF Passable(x - 1, y - 1)
               THEN {Swap([pf EXCEPT !.vx = k], "steam_diag_left", ComputeID(x - 1, y - 1))
                     : k \in DriftVxDraws}
               ELSE IF Passable(x + 1, y - 1)
               THEN {Swap([pf EXCEPT !.vx = k], "steam_diag_right", ComputeID(x + 1, y - 1))
                     : k \in DriftVxDraws}
               ELSE IF InBounds(x + 1, y) /\ GetParticleAt(g, x + 1, y).id = mat_id_water
               THEN {Swap(p, "steam_right", ComputeID(x + 1, y))}
               ELSE IF InBounds(x - 1, y) /\ g.w[ComputeID(x - 1, y)].id = mat_id_water
               THEN {Swap(p, "steam_left", ComputeID(x - 1, y))}
               ELSE {Res(WriteData(g, read_idx, p), "steam_stay", -1)}
    IN IF p0.life_time > 10000
       THEN {Res(WriteData(g0, read_idx, ParticleEmpty), "steam_decay", -1)}
       ELSE IF p0.upd THEN {Res(g0, "steam_skip", -1)}
       ELSE UNION {Body(jit) : jit \in JitterDraws}

(* ------------------------------- the state ---------------------------- *)

VARIABLES
    WorldData,          \* std::vector<Particle>, index y * textureWidth + x
    ColorData,          \* std::vector<Color32>, same indexing
    fault,              \* std::out_of_range has been thrown by vector::at
    selectedMaterial,   \* material_selection
    frameCounter,       \* unsigned int, held as <<high 16 bits, low 16 bits>>
    pc,                 \* "idle", "scan" (first loop), "reset" (second loop)
    sx, sy,             \* the cell the scan loop is at while pc = "scan"
    dt,                 \* gt.DeltaTime() of the running frame, ms
    budget,             \* frames and edit commands still to be explored
    last,               \* the operation taken last and the branch it took
    frame,              \* history of the running frame: WorldData when it
                        \* started, the cells at which UpdateFire drew
                        \* RandomVal(0, 100) # 0 with life_time > 0.2, and
                        \* how often the scan loop has visited each cell
    start,              \* history: WorldData of the initial state
    query               \* the last call of a Grid Store query and its outcome

vars == <<WorldData, ColorData, fault, selectedMaterial, frameCounter, pc, sx, sy,
          dt, budget, last, frame, start, query>>

Grid == [w |-> WorldData, c |-> ColorData, fault |-> fault]

NoOp == [op |-> "none", branch |-> "none", at |-> -1, to |-> -1, spawned |-> FALSE]

\* no query has been made; raised = std::out_of_range left the call, reads =
\* the indices of WorldData the call read
NoQuery == [op |-> "none", x |-> 0, y |-> 0, raised |-> FALSE, value |-> FALSE, reads |-> {}]

\* the history of a frame that starts on the grid w
FrameStart(w) == [pre |-> w, declined |-> {}, visits |-> [i \in Idx |-> 0]]

EmptyWorld == [i \in Idx |-> ParticleEmpty]
ZeroColors == [i \in Idx |-> <<0, 0, 0, 0>>]

(* ----------------------------- frame counter --------------------------- *)

\* frameCounter = (frameCounter + 1) % UINT_MAX, on the two 16-bit halves
FrameCounterNext(fc) ==
    LET inc == IF fc[2] = 65535 THEN <<(fc[1] + 1) % 65536, 0>> ELSE <<fc[1], fc[2] + 1>>
    IN IF inc = <<65535, 65535>> THEN <<0, 0>> ELSE inc

FrameCounterEven(fc) == fc[2] % 2 = 0

(* -------------------------- Simulation Driver -------------------------- *)

\* the parity test inverted: ran = frame_counter_even ? 1 : 0
RanInverted(fc) == IF FrameCounterEven(fc) THEN 1 ELSE 0

\* unsigned int ran = frame_counter_even ? 0 : 1
Ran(fc) == IF FrameCounterEven(fc) THEN 0 ELSE 1

\* the x loop: for (x = ran ? 0 : textureWidth - 1; ran ? x < textureWidth : x > 0;
\*                  ran ? ++x : --x)
ScanStartX(ran) == IF ran # 0 THEN 0 ELSE textureWidth - 1
ScanCond(ran, x) == IF ran # 0 THEN x < textureWidth ELSE x > 0
ScanNextX(ran, x) == IF ran # 0 THEN x + 1 ELSE x - 1

\* the y loop: for (y = textureHeight - 1; y > 0; --y)
ScanStartY == textureHeight - 1
ScanCondY(y) == y > 0

\* the cells one pass of the two nested loops visits
ScannedCells(ran) ==
    {c \in (0 .. textureWidth - 1) \X (0 .. textureHeight - 1) :
        ScanCondY(c[2]) /\ c[2] <= ScanStartY
        /\ (IF ran # 0 THEN c[1] >= ScanStartX(ran) ELSE c[1] <= ScanStartX(ran))
        /\ ScanCond(ran, c[1])}

\* the loops with the row counter never decremented: the row is scanned again
CellAfterSameRow(ran, x, y) ==
    IF ScanCond(ran, ScanNextX(ran, x)) THEN <<ScanNextX(ran, x), y>>
    ELSE <<ScanStartX(ran), y>>

\* the cell the loops visit after (x, y); <<-1, -1>> when both loops are over
CellAfter(ran, x, y) ==
    IF ScanCond(ran, ScanNextX(ran, x)) THEN <<ScanNextX(ran, x), y>>
    ELSE IF ScanCondY(y - 1) /\ ScanCond(ran, ScanStartX(ran))
    THEN <<ScanStartX(ran), y - 1>>
    ELSE <<-1, -1>>

FirstCell(ran) ==
    IF ScanCondY(ScanStartY) /\ ScanCond(ran, ScanStartX(ran))
    THEN <<ScanStartX(ran), ScanStartY>>
    ELSE <<-1, -1>>

\* Update: the frame counter is advanced, then UpdateParticleSim starts
UpdateWith(d) ==
    /\ pc = "idle"
    /\ budget.frames > 0
    /\ LET fc == FrameCounterNext(frameCounter)
           c == FirstCell(Ran(fc))
       IN /\ frameCounter' = fc
          /\ dt' = d
          /\ pc' = IF c = <<-1, -1>> THEN "reset" ELSE "scan"
          /\ sx' = c[1]
          /\ sy' = c[2]
    /\ budget' = [budget EXCEPT !.frames = @ - 1]
    /\ last' = [NoOp EXCEPT !.op = "Update"]
    /\ frame' = FrameStart(WorldData)
    /\ UNCHANGED <<WorldData, ColorData, fault, selectedMaterial, start, query>>

\* Update called with a timer whose DeltaTime() is any of DtChoices
Update == \E d \in DtChoices : UpdateWith(d)

\* Update called with a timer whose DeltaTime() is 0.25 s
UpdateQuarterSecond == UpdateWith(250)

\* WorldData.at(read_idx).life_time += 1.f * dt
Aged(g, idx, d) == [g EXCEPT !.w[idx].life_time = @ + d]

\* the end of one iteration of the scan loop with the rule outcome r
Commit(op, r) ==
    LET c == CellAfter(Ran(frameCounter), sx, sy)
    IN /\ WorldData' = r.g.w
       /\ ColorData' = r.g.c
       /\ fault' = r.g.fault
       /\ pc' = IF r.g.fault THEN "crashed" ELSE IF c = <<-1, -1>> THEN "reset" ELSE "scan"
       /\ sx' = c[1]
       /\ sy' = c[2]
       /\ last' = [op |-> op, branch |-> r.branch, at |-> ComputeID(sx, sy), to |-> r.to,
                   spawned |-> r.spawned]
       /\ frame' = [frame EXCEPT
                      !.visits[ComputeID(sx, sy)] = @ + 1,
                      !.declined =
                          IF op = "UpdateFire"
                             /\ GetParticleAt(Grid, sx, sy).life_time + dt > 200
                             /\ r.branch \notin {"fire_skip", "fire_extinguish"}
                          THEN @ \cup {ComputeID(sx, sy)}
                          ELSE @]
       /\ UNCHANGED <<selectedMaterial, frameCounter, dt, budget, start, query>>

ScanAt(mats) == pc = "scan" /\ GetParticleAt(Grid, sx, sy).id \in mats

\* default: / case mat_id_empty: (Stone has no case of its own)
StepDefault ==
    /\ ScanAt({mat_id_empty, mat_id_stone})
    /\ Commit("default", Res(Aged(Grid, ComputeID(sx, sy), dt), "none", -1))

StepSand ==
    /\ ScanAt({mat_id_sand})
    /\ \E r \in UpdateSand(Aged(Grid, ComputeID(sx, sy), dt), sx, sy, dt) :
        Commit("UpdateSand", r)

StepWater ==
    /\ ScanAt({mat_id_water})
    /\ \E r \in UpdateWater(Aged(Grid, ComputeID(sx, sy), dt), sx, sy, dt) :
        Commit("UpdateWater", r)

StepSmoke ==
    /\ ScanAt({mat_id_smoke})
    /\ \E r \in UpdateSmoke(Aged(Grid, ComputeID(sx, sy), dt), sx, sy, dt) :
        Commit("UpdateSmoke", r)

StepSteam ==
    /\ ScanAt({mat_id_steam})
    /\ \E r \in UpdateSteam(Aged(Grid, ComputeID(sx, sy), dt), sx, sy, dt) :
        Commit("UpdateSteam", r)

StepFire ==
    /\ ScanAt({mat_id_fire})
    /\ \E r \in UpdateFire(Aged(Grid, ComputeID(sx, sy), dt), sx, sy, dt) :
        Commit("UpdateFire", r)

\* the second pair of loops: has_been_updated_this_frame = false in every cell
\* the loops visit
ResetFlags(w, ran) ==
    [i \in Idx |->
        IF \E c \in ScannedCells(ran) : ComputeID(c[1], c[2]) = i
        THEN [w[i] EXCEPT !.upd = FALSE] ELSE w[i]]

ResetPass ==
    /\ pc = "reset"
    /\ WorldData' = ResetFlags(WorldData, Ran(frameCounter))
    /\ pc' = "idle"
    /\ last' = [NoOp EXCEPT !.op = "ResetPass"]
    /\ UNCHANGED <<ColorData, fault, selectedMaterial, frameCounter, sx, sy, dt,
                   budget, frame, start, query>>

(* ---------------------------- Edit Interface --------------------------- *)

\* pointer coordinates delivered by the host: the grid is the client area
MouseXs == 0 .. (textureWidth - 1)
MouseYs == 0 .. (textureHeight - 1)

\* std::clamp(static_cast<unsigned int>(v), 0u, hi): a negative int converts
\* to a value above hi
ClampU(v, hi) == IF v < 0 THEN hi ELSE Min(v, hi)

\* (cos(theta) * r, sin(theta) * r) truncated toward zero, r <= R: the integer
\* offsets inside the disk
DiskOffsets ==
    {o \in (-selectionRadius .. selectionRadius) \X (-selectionRadius .. selectionRadius) :
        o[1] * o[1] + o[2] * o[2] <= selectionRadius * selectionRadius}

\* static_cast<unsigned int>(f) of a float f <= -1 is undefined: the builds
\* give 2^32 - k ("wrap"), 0 ("zero") or 2^32 - 1 ("max")
CastModes == {"wrap", "zero", "max"}

\* std::clamp(mp + static_cast<unsigned int>(f), 0u, hi) for trunc(f) = a: the
\* unsigned sum is taken modulo 2^32, so a sum below zero is a value above hi
BrushCoord(mp, a, mode, hi) ==
    LET e == IF a >= 0 THEN a
             ELSE IF mode = "wrap" THEN a ELSE IF mode = "zero" THEN 0 ELSE -1
    IN IF mp + e < 0 THEN hi ELSE Min(mp + e, hi)

\* Vector2{ RandomVal(-1, 1), RandomVal(-2, 5) }
PlaceVelDraws == {<<0, 0>>, <<-1, -2>>, <<1, 5>>}

\* the switch on selectedMaterial with the selection written as the tag
ParticleOfUntagged(sel) == [ParticleZero EXCEPT !.id = sel + 7]

\* the switch on selectedMaterial in OnMouseDown
ParticleOf(sel) ==
    CASE sel = mat_sel_sand -> ParticleSand
      [] sel = mat_sel_water -> ParticleWater
      [] sel = mat_sel_stone -> ParticleStone
      [] sel = mat_sel_fire -> ParticleFire
      [] sel = mat_sel_smoke -> ParticleSmoke
      [] sel = mat_sel_steam -> ParticleSteam
      [] OTHER -> ParticleZero

\* one iteration of the spawn loop without its IsEmpty test
PlacePointOverwriting(g, mp_x, mp_y, o, mode, vel, sel) ==
    LET max_idx == (textureWidth * textureHeight) - 1
        mpx == BrushCoord(mp_x, o[1], mode, textureWidth - 1)
        mpy == BrushCoord(mp_y, o[2], mode, textureHeight - 1)
        idx == Clamp(mpy * textureWidth + mpx, 0, max_idx)
        p == [ParticleOf(sel) EXCEPT !.vx = vel[1] * 1000, !.vy = vel[2] * 1000]
    IN WriteData(g, idx, p)

\* one iteration of the spawn loop of OnMouseDown
PlacePoint(g, mp_x, mp_y, o, mode, vel, sel) ==
    LET max_idx == (textureWidth * textureHeight) - 1
        mpx == BrushCoord(mp_x, o[1], mode, textureWidth - 1)
        mpy == BrushCoord(mp_y, o[2], mode, textureHeight - 1)
        idx == Clamp(mpy * textureWidth + mpx, 0, max_idx)
        p == [ParticleOf(sel) EXCEPT !.vx = vel[1] * 1000, !.vy = vel[2] * 1000]
    IN IF IsEmpty(g, mpx, mpy) THEN WriteData(g, idx, p) ELSE g

\* the grids n iterations of the spawn loop can leave
RECURSIVE PlacePoints(_, _, _, _, _)
PlacePoints(g, mp_x, mp_y, n, sel) ==
    IF n = 0 THEN {g}
    ELSE UNION {PlacePoints(PlacePoint(g, mp_x, mp_y, o, mode, vel, sel),
                            mp_x, mp_y, n - 1, sel)
                : o \in DiskOffsets, mode \in CastModes, vel \in PlaceVelDraws}

\* OnMouseDown(VK_LBUTTON, x, y)
Place ==
    /\ pc = "idle"
    /\ budget.edits > 0
    /\ \E x \in MouseXs, y \in MouseYs, n \in 1 .. MaxPlacePoints :
        \E g \in PlacePoints(Grid, ClampU(x, textureWidth - 1),
                             ClampU(y, textureHeight - 1), n, selectedMaterial) :
            /\ WorldData' = g.w
            /\ ColorData' = g.c
            /\ fault' = g.fault
            /\ last' = [NoOp EXCEPT !.op = "Place", !.at = ComputeID(x, y)]
    /\ budget' = [budget EXCEPT !.edits = @ - 1]
    /\ UNCHANGED <<selectedMaterial, frameCounter, pc, sx, sy, dt, frame, start, query>>

\* the cells the erase loops write: for (int i = -R; i < R; ++i)
\* for (int j = -R; j < R; ++j), rx = mp_x + j, ry = mp_y + i, kept when
\* InBounds(rx, ry) && VectorDistance({x, y}, {rx, ry}) <= R
EraseCells(x, y) ==
    LET mp_x == ClampU(x, textureWidth - 1)
        mp_y == ClampU(y, textureHeight - 1)
    IN {ComputeID(mp_x + o[2], mp_y + o[1]) : o \in
          {o \in (-selectionRadius .. selectionRadius - 1)
                 \X (-selectionRadius .. selectionRadius - 1) :
              /\ InBounds(mp_x + o[2], mp_y + o[1])
              /\ (x - (mp_x + o[2])) * (x - (mp_x + o[2]))
                 + (y - (mp_y + o[1])) * (y - (mp_y + o[1]))
                   <= selectionRadius * selectionRadius}}

\* OnMouseDown(VK_RBUTTON, x, y)
Erase ==
    /\ pc = "idle"
    /\ budget.edits > 0
    /\ \E x \in MouseXs, y \in MouseYs :
        LET g == WriteEach(Grid, EraseCells(x, y), ParticleEmpty)
        IN /\ WorldData' = g.w
           /\ ColorData' = g.c
           /\ fault' = g.fault
           /\ last' = [NoOp EXCEPT !.op = "Erase", !.at = ComputeID(x, y)]
    /\ budget' = [budget EXCEPT !.edits = @ - 1]
    /\ UNCHANGED <<selectedMaterial, frameCounter, pc, sx, sy, dt, frame, start, query>>

\* SelectMaterial without its switch: the key code taken as the selection
SelectMaterialUnchecked(sel, button) == button - 49

\* SelectMaterial(button): '1' .. '6' are 0x31 .. 0x36
SelectMaterial(sel, button) ==
    IF button \in 49 .. 54 THEN button - 49 ELSE sel

\* ClearScreen with only its second assignment
ClearScreenColorsOnly(g) == [g EXCEPT !.c = ZeroColors]

\* ClearScreen: both vectors are assigned freshly constructed contents
ClearScreen(g) == [g EXCEPT !.w = EmptyWorld, !.c = ZeroColors]

\* keys '1' .. '6', 'C' (0x43) and one key without a binding ('A', 0x41)
Keys == (49 .. 54) \cup {67, 65}

\* OnKeyUp(button)
OnKeyUp ==
    /\ pc = "idle"
    /\ budget.edits > 0
    /\ \E button \in Keys :
        LET g == IF button = 67 THEN ClearScreen(Grid) ELSE Grid
        IN /\ WorldData' = g.w
           /\ ColorData' = g.c
           /\ fault' = g.fault
           /\ selectedMaterial' = SelectMaterial(selectedMaterial, button)
           /\ last' = [NoOp EXCEPT !.op = "OnKeyUp", !.at = button]
    /\ budget' = [budget EXCEPT !.edits = @ - 1]
    /\ UNCHANGED <<frameCounter, pc, sx, sy, dt, frame, start, query>>

(* ---------------------------- specifications --------------------------- *)

\* the state after construction: every cell a value-initialised Particle
Init ==
    /\ WorldData = EmptyWorld
    /\ ColorData = ZeroColors
    /\ fault = FALSE
    /\ selectedMaterial = mat_sel_sand
    /\ frameCounter = <<0, 0>>
    /\ pc = "idle"
    /\ sx = -1
    /\ sy = -1
    /\ dt = 0
    /\ budget = [frames |-> MaxFrames, edits |-> MaxEdits]
    /\ last = NoOp
    /\ frame = FrameStart(WorldData)
    /\ start = WorldData
    /\ query = NoQuery

NextSim ==
    \/ Update
    \/ StepDefault
    \/ StepSand
    \/ StepWater
    \/ StepSmoke
    \/ StepSteam
    \/ StepFire
    \/ ResetPass

NextEdit ==
    \/ Place
    \/ Erase
    \/ OnKeyUp

Next == NextSim \/ NextEdit

Spec == Init /\ [][Next]_vars

(* -------- simulation from grids that Place commands have filled -------- *)

\* number of particles in the grids the simulation is started from
MaxParticles == 2

\* velocities of the particles in those grids (one draw of PlaceVelDraws)
SimVelDraws == {<<0, 0>>}

\* a particle as OnMouseDown writes it
Placed(sel, vel) == [ParticleOf(sel) EXCEPT !.vx = vel[1] * 1000, !.vy = vel[2] * 1000]

PlacedParticles ==
    {Placed(sel, vel) : sel \in mat_sel_sand .. mat_sel_steam, vel \in SimVelDraws}

\* the grids with at most n particles, each as Place wrote it
RECURSIVE GridsWith(_)
GridsWith(n) ==
    IF n = 0 THEN {EmptyWorld}
    ELSE LET less == GridsWith(n - 1)
         IN less \cup {[w EXCEPT ![i] = q] :
                          w \in less, i \in Idx, q \in PlacedParticles}

ColorsOf(w) == [i \in Idx |-> w[i].color]

\* the state before a frame, w having been built by Place commands
InitWith(w, fc, frames, edits) ==
    /\ WorldData = w
    /\ ColorData = ColorsOf(w)
    /\ fault = FALSE
    /\ selectedMaterial = mat_sel_sand
    /\ frameCounter = fc
    /\ pc = "idle"
    /\ sx = -1
    /\ sy = -1
    /\ dt = 0
    /\ budget = [frames |-> frames, edits |-> edits]
    /\ last = NoOp
    /\ frame = FrameStart(w)
    /\ start = w
    /\ query = NoQuery

\* one frame, the first after construction (an odd frame: every column of the
\* rows below the top row is scanned)
InitSim == \E w \in GridsWith(MaxParticles) : InitWith(w, <<0, 0>>, 1, 0)

SpecSim == InitSim /\ [][NextSim]_vars

(* ------------------------- Grid Store queries -------------------------- *)

\* how far outside the grid the queried coordinates reach
QueryMargin == 2

QueryXs == (0 - QueryMargin) .. (textureWidth - 1 + QueryMargin)
QueryYs == (0 - QueryMargin) .. (textureHeight - 1 + QueryMargin)

\* the indices of WorldData that IsEmpty(x, y) reads: the right operand of &&
\* is evaluated only when InBounds(x, y) holds
IsEmptyReads(x, y) == IF InBounds(x, y) THEN {ComputeID(x, y)} ELSE {}

\* a call of InBounds(x, y)
QueryInBounds ==
    /\ \E x \in QueryXs, y \in QueryYs :
        query' = [op |-> "InBounds", x |-> x, y |-> y, raised |-> FALSE,
                  value |-> InBounds(x, y), reads |-> {}]
    /\ UNCHANGED <<WorldData, ColorData, fault, selectedMaterial, frameCounter, pc,
                   sx, sy, dt, budget, last, frame, start>>

\* a call of IsEmpty(x, y)
QueryIsEmpty ==
    /\ \E x \in QueryXs, y \in QueryYs :
        LET raises == \E i \in IsEmptyReads(x, y) : AtFaults(i)
        IN query' = [op |-> "IsEmpty", x |-> x, y |-> y, raised |-> raises,
                     value |-> IF raises THEN FALSE ELSE IsEmpty(Grid, x, y),
                     reads |-> IsEmptyReads(x, y)]
    /\ UNCHANGED <<WorldData, ColorData, fault, selectedMaterial, frameCounter, pc,
                   sx, sy, dt, budget, last, frame, start>>

\* a call of GetParticleAt(x, y)
QueryGetParticleAt ==
    /\ \E x \in QueryXs, y \in QueryYs :
        LET raises == AtFaults(ComputeID(x, y))
        IN query' = [op |-> "GetParticleAt", x |-> x, y |-> y, raised |-> raises,
                     value |-> IF raises THEN FALSE ELSE GetParticleAt(Grid, x, y),
                     reads |-> IF raises THEN {} ELSE {ComputeID(x, y)}]
    /\ UNCHANGED <<WorldData, ColorData, fault, selectedMaterial, frameCounter, pc,
                   sx, sy, dt, budget, last, frame, start>>

InitQuery == \E w \in GridsWith(1) : InitWith(w, <<0, 0>>, 0, 0)

NextQuery ==
    \/ QueryInBounds
    \/ QueryIsEmpty
    \/ QueryGetParticleAt

SpecQuery == InitQuery /\ [][NextQuery]_vars

(* ------------------------------ scenarios ------------------------------ *)

\* a single Sand particle, placed in any cell of an otherwise empty grid, and
\* textureHeight - 1 frames to run
InitSandFall ==
    \E i \in Idx, vel \in PlaceVelDraws :
        InitWith([EmptyWorld EXCEPT ![i] = Placed(mat_sel_sand, vel)], <<0, 0>>,
                 textureHeight - 1, 0)

NextSandFall ==
    \/ Update
    \/ StepDefault
    \/ StepSand
    \/ ResetPass

SpecSandFall == InitSandFall /\ [][NextSandFall]_vars

\* a Water particle at rest at (x, y), Stone in every cell of row y + 1
BlockedWaterWorld(x, y) ==
    [i \in Idx |->
        IF i = ComputeID(x, y) THEN ParticleWater
        ELSE IF i \div textureWidth = y + 1 THEN ParticleStone
        ELSE ParticleEmpty]

InitBlockedWater ==
    \E x \in 0 .. (textureWidth - 1), y \in 0 .. (textureHeight - 2),
       fc \in {<<0, 0>>, <<0, 1>>} :
        InitWith(BlockedWaterWorld(x, y), fc, 1, 0)

NextBlockedWater ==
    \/ Update
    \/ StepDefault
    \/ StepWater
    \/ ResetPass

SpecBlockedWater == InitBlockedWater /\ [][NextBlockedWater]_vars

\* every cell filled with one material, and MaxEdits Erase commands to run
InitErase ==
    \E q \in PlacedParticles :
        InitWith([i \in Idx |-> q], <<0, 0>>, 0, MaxEdits)

SpecErase == InitErase /\ [][Erase]_vars

(* ------------------------------- C1 ------------------------------------ *)

\* C1: after every completed frame (scan pass, then reset pass)
\* has_been_updated_this_frame is false in every cell of the grid.
FlagHygiene ==
    (pc = "idle" /\ last.op = "ResetPass") => \A i \in Idx : ~WorldData[i].upd

(* ------------------------------- C5 ------------------------------------ *)

LoneAt(w, i) == \A j \in Idx \ {i} : w[j].id = mat_id_empty

\* C5: a Fire particle, alone in the grid, whose age is above 0.2 s when a
\* frame starts and for which no draw of that frame declines the extinguish
\* branch, leaves its cell Empty after that frame.
FireExtinguishes ==
    (pc = "idle" /\ last.op = "ResetPass") =>
        \A i \in Idx :
            (/\ frame.pre[i].id = mat_id_fire
             /\ frame.pre[i].life_time > 200
             /\ LoneAt(frame.pre, i)
             /\ i \notin frame.declined)
            => WorldData[i].id = mat_id_empty

(* ------------------------------- C10 ----------------------------------- *)

\* one move of the scan loops from one visited cell to the next
ScanMove == pc = "scan" /\ pc' = "scan"

\* C10 as stated: even frames scan each row left to right, odd frames right
\* to left, rows from the bottom row upward.
ScanOrderAsStated ==
    [][ScanMove =>
        IF sy' = sy
        THEN (IF FrameCounterEven(frameCounter) THEN sx' = sx + 1 ELSE sx' = sx - 1)
        ELSE sy' = sy - 1]_vars

\* C10 amended: within a row the scan visits cells in descending x when the
\* frame counter is even and in ascending x when it is odd; it starts in the
\* bottom row and passes from a row to the row above it.
ScanOrder ==
    [][/\ ScanMove =>
            IF sy' = sy
            THEN (IF FrameCounterEven(frameCounter) THEN sx' = sx - 1 ELSE sx' = sx + 1)
            ELSE sy' = sy - 1
                 /\ sx' = (IF FrameCounterEven(frameCounter) THEN textureWidth - 1 ELSE 0)
       /\ (pc = "idle" /\ pc' = "scan") =>
            /\ sy' = textureHeight - 1
            /\ sx' = (IF FrameCounterEven(frameCounter') THEN textureWidth - 1 ELSE 0)]_vars

\* an odd frame has been completed and the even frame after it has scanned
\* down to the last cell of its top scanned row
ScanOrderWitness ==
    /\ pc = "scan"
    /\ frameCounter = <<0, 2>>
    /\ sy = 1
    /\ sx = 1

(* ------------------------------- C2 ------------------------------------ *)

\* C2: a single Sand particle placed in the top row of an otherwise empty grid
\* is, after textureHeight - 1 frames, in the bottom row of the column it
\* started in, and the cell it started in is Empty.
SandFalls ==
    (pc = "idle" /\ last.op = "ResetPass" /\ budget.frames = 0) =>
        \A x \in 0 .. (textureWidth - 1) :
            start[ComputeID(x, 0)].id = mat_id_sand =>
                /\ WorldData[ComputeID(x, textureHeight - 1)].id = mat_id_sand
                /\ WorldData[ComputeID(x, 0)].id = mat_id_empty

(* ------------------------------- C3 ------------------------------------ *)

\* C3: Water resting on a full row of Stone is, after one frame, still in the
\* row it started in (it may have moved sideways); no cell of another row
\* holds Water.
WaterStaysAboveStone ==
    (pc = "idle" /\ last.op = "ResetPass" /\ budget.frames = 0) =>
        \A i, j \in Idx :
            (start[i].id = mat_id_water /\ WorldData[j].id = mat_id_water)
            => j \div textureWidth = i \div textureWidth

(* ------------------------------- C4 ------------------------------------ *)

\* C4: Erase with its centre at the cell last.at empties every cell of the
\* grid whose distance to the centre is at most selectionRadius and leaves
\* every other cell as it was.
EraseClearsDisk ==
    [][last'.op = "Erase" =>
        \A i \in Idx :
            LET ddx == (i % textureWidth) - (last'.at % textureWidth)
                ddy == (i \div textureWidth) - (last'.at \div textureWidth)
            IN IF ddx * ddx + ddy * ddy <= selectionRadius * selectionRadius
               THEN WorldData'[i] = ParticleEmpty
               ELSE WorldData'[i] = WorldData[i]]_vars

(* ------------------------------- C6 ------------------------------------ *)

\* C6: GetParticleAt(x, y) with (x, y) outside the grid leaves the call with
\* an out-of-range failure.
GetParticleAtRaises ==
    (/\ query.op = "GetParticleAt"
     /\ ~(query.x \in 0 .. (textureWidth - 1) /\ query.y \in 0 .. (textureHeight - 1)))
    => query.raised

(* ------------------------------- C7 ------------------------------------ *)

\* C7: for every pair of integers, negative ones included, InBounds returns
\* whether the pair is inside the grid and IsEmpty returns whether it is inside
\* the grid and the cell is Empty; neither raises, and IsEmpty reads no cell
\* of the grid when the pair is outside it.
SoftQueries ==
    LET inside == query.x \in 0 .. (textureWidth - 1) /\ query.y \in 0 .. (textureHeight - 1)
    IN /\ query.op = "InBounds" =>
            /\ ~query.raised
            /\ query.value = inside
       /\ query.op = "IsEmpty" =>
            /\ ~query.raised
            /\ query.value =
                 (inside /\ WorldData[query.y * textureWidth + query.x].id = mat_id_empty)
            /\ ~inside => query.reads = {}

\* IsEmpty has been asked about a cell left of the grid whose wrapped index
\* names an Empty cell, and about an occupied cell
SoftQueriesWitness ==
    /\ query.op = "IsEmpty"
    /\ query.x < 0
    /\ query.y \in 1 .. (textureHeight - 1)
    /\ WorldData[query.y * textureWidth + query.x].id = mat_id_empty
    /\ query.value = FALSE
    /\ \E i \in Idx : WorldData[i].id # mat_id_empty

(* ------------------------------- C9 ------------------------------------ *)

\* the branches that write the moving particle to a target cell and the
\* target's previous occupant to the origin cell
SwapBranches ==
    {"sand_velocity", "sand_fall", "sand_diag_left", "sand_diag_right", "sand_origin_swap",
     "water_fall_swap", "water_diag_l_swap", "water_diag_r_swap", "water_origin_swap",
     "water_spread",
     "fire_velocity", "fire_fall", "fire_diag_left", "fire_diag_right",
     "fire_up_left_water", "fire_up_right_water", "fire_up_water",
     "smoke_throw_water", "smoke_velocity", "smoke_rise", "smoke_diag_left",
     "smoke_diag_right", "smoke_right", "smoke_left",
     "steam_throw_water", "steam_velocity", "steam_rise", "steam_diag_left",
     "steam_diag_right", "steam_right", "steam_left"}

\* C9: a rule invocation that takes a swap branch, and emits no smoke before
\* it, leaves the number of cells of every non-Empty material unchanged.
SwapConserves ==
    [][(last'.branch \in SwapBranches /\ ~last'.spawned) =>
        \A m \in Materials \ {mat_id_empty} :
            Cardinality({i \in Idx : WorldData'[i].id = m})
              = Cardinality({i \in Idx : WorldData[i].id = m})]_vars

\* a swap has exchanged the moving particle with a non-Empty occupant
SwapConservesWitness ==
    /\ last.branch \in SwapBranches
    /\ last.to \in Idx
    /\ last.to # last.at
    /\ WorldData[last.at].id # mat_id_empty
    /\ WorldData[last.to].id # mat_id_empty

(* ------------------------------- C11 ----------------------------------- *)

\* C11: when a frame has completed, every cell of the grid that held a
\* non-Empty, non-Stone particle when the scan pass started has been visited
\* by the scan loop exactly once.
ScanCoverage ==
    (pc = "idle" /\ last.op = "ResetPass") =>
        \A i \in Idx :
            frame.pre[i].id \notin {mat_id_empty, mat_id_stone} => frame.visits[i] = 1

(* ------------------------------- C12 ----------------------------------- *)

InitPlace == \E w \in GridsWith(1) : InitWith(w, <<0, 0>>, 0, MaxEdits)

NextPlace ==
    \/ Place
    \/ OnKeyUp

SpecPlace == InitPlace /\ [][NextPlace]_vars

\* C13: a Place command leaves every cell that was non-Empty before it as it
\* was, changes only cells that were Empty, and every particle it creates has
\* the material that is selected.
PlaceNeverOverwrites ==
    [][last'.op = "Place" =>
        LET selected == CASE selectedMaterial = mat_sel_sand  -> mat_id_sand
                          [] selectedMaterial = mat_sel_water -> mat_id_water
                          [] selectedMaterial = mat_sel_stone -> mat_id_stone
                          [] selectedMaterial = mat_sel_fire  -> mat_id_fire
                          [] selectedMaterial = mat_sel_smoke -> mat_id_smoke
                          [] selectedMaterial = mat_sel_steam -> mat_id_steam
        IN \A i \in Idx :
              /\ WorldData[i].id # mat_id_empty =>
                    (WorldData'[i] = WorldData[i] /\ ColorData'[i] = ColorData[i])
              /\ WorldData'[i] # WorldData[i] =>
                    (WorldData[i].id = mat_id_empty /\ WorldData'[i].id = selected)]_vars

\* Place has created a particle of a newly selected material in a grid that
\* already held a particle of another material
PlaceNeverOverwritesWitness ==
    /\ last.op = "Place"
    /\ selectedMaterial # mat_sel_sand
    /\ \E i, j \in Idx :
        /\ WorldData[i].id = selectedMaterial + 1
        /\ WorldData[j].id \notin {mat_id_empty, selectedMaterial + 1}

(* ------------------------------- C14 ----------------------------------- *)

\* C14: after ClearScreen (key 'C') WorldData and ColorData have
\* textureWidth * textureHeight entries each, every particle is Empty with
\* zero age, zero velocity and a false updated flag, and every colour is
\* (0, 0, 0, 0).
ClearEmpties ==
    (last.op = "OnKeyUp" /\ last.at = 67) =>
        /\ DOMAIN WorldData = 0 .. (textureWidth * textureHeight - 1)
        /\ DOMAIN ColorData = 0 .. (textureWidth * textureHeight - 1)
        /\ \A i \in 0 .. (textureWidth * textureHeight - 1) :
            /\ WorldData[i] = [id |-> mat_id_empty, life_time |-> 0, vx |-> 0, vy |-> 0,
                               color |-> <<0, 0, 0, 0>>, upd |-> FALSE]
            /\ ColorData[i] = <<0, 0, 0, 0>>

\* ClearScreen has been called after a frame that ran on a grid holding Sand
ClearEmptiesWitness ==
    /\ last.op = "OnKeyUp"
    /\ last.at = 67
    /\ frameCounter # <<0, 0>>
    /\ \E i \in Idx : frame.pre[i].id = mat_id_sand

(* ------------------------------- C15 ----------------------------------- *)

\* C15: the selected material is Sand initially; a key '1' .. '6' selects
\* Sand, Water, Stone, Fire, Smoke, Steam and leaves the grid as it is; every
\* other key, every simulation step, every Place and every Erase leaves the
\* selected material as it is.
SelectionChanges ==
    /\ selectedMaterial = mat_sel_sand
    /\ [][IF last'.op = "OnKeyUp" /\ last'.at \in 49 .. 54
          THEN /\ selectedMaterial' =
                    (CASE last'.at = 49 -> mat_sel_sand
                       [] last'.at = 50 -> mat_sel_water
                       [] last'.at = 51 -> mat_sel_stone
                       [] last'.at = 52 -> mat_sel_fire
                       [] last'.at = 53 -> mat_sel_smoke
                       [] last'.at = 54 -> mat_sel_steam)
               /\ WorldData' = WorldData
               /\ ColorData' = ColorData
          ELSE selectedMaterial' = selectedMaterial]_vars

\* Steam has been selected, a particle placed and a frame run, and the
\* selection is still Steam
SelectionChangesWitness ==
    /\ selectedMaterial = mat_sel_steam
    /\ pc = "idle"
    /\ last.op = "ResetPass"
    /\ \E i \in Idx : WorldData[i].id = mat_id_steam

(* ------------------------------- C16 ----------------------------------- *)

\* C16: after every completed frame and after every Place, Erase or Clear
\* command, ColorData[i] is the colour of the particle WorldData[i], for
\* every index i.
ColorConsistency ==
    (pc = "idle") => \A i \in Idx : ColorData[i] = WorldData[i].color

(* ------------------------------- C17 ----------------------------------- *)

\* C17: in every reachable state WorldData and ColorData have exactly
\* textureWidth * textureHeight entries each and the material tag of every
\* cell is one of Empty, Sand, Water, Stone, Fire, Smoke, Steam.
GridShape ==
    /\ DOMAIN WorldData = 0 .. (textureWidth * textureHeight - 1)
    /\ DOMAIN ColorData = 0 .. (textureWidth * textureHeight - 1)
    /\ \A i \in DOMAIN WorldData :
        WorldData[i].id \in {mat_id_empty, mat_id_sand, mat_id_water, mat_id_stone,
                             mat_id_fire, mat_id_smoke, mat_id_steam}

\* every frame and every edit command of the run has been taken, the last
\* frame ran on a grid holding a particle, and the grid still holds one
GridShapeWitness ==
    /\ budget.frames = 0
    /\ budget.edits = 0
    /\ pc = "idle"
    /\ last.op \in {"Erase", "OnKeyUp"}
    /\ \E i \in Idx : frame.pre[i].id # mat_id_empty
    /\ \E i \in Idx : WorldData[i].id # mat_id_empty

(* ------------------------------- C18 ----------------------------------- *)

\* C18: no step of a frame changes a cell that holds Stone: after the step
\* the cell holds Stone with the velocity and the colour it had.
StoneStays ==
    [][last'.op \notin {"Place", "Erase", "OnKeyUp"} =>
        \A i \in Idx :
            WorldData[i].id = mat_id_stone =>
                /\ WorldData'[i].id = mat_id_stone
                /\ WorldData'[i].vx = WorldData[i].vx
                /\ WorldData'[i].vy = WorldData[i].vy
                /\ WorldData'[i].color = WorldData[i].color]_vars

(* ------------------------------- C19 ----------------------------------- *)

\* C19: when the rule of a Sand or Water particle finds none of its
\* displacement checks applicable (the velocity target, the fall, both
\* diagonals and, for Water, every cell of the lateral spread), the particle
\* stays in its cell and no cell of the grid changes its material.
FallbackStays ==
    [][(LET x == last'.at % textureWidth
            y == last'.at \div textureWidth
            noLateral == \A j \in 1 .. 5, i \in 0 .. 1 :
                            ~IsEmpty(Grid, x - j, y + i) /\ ~IsEmpty(Grid, x + j, y + i)
        IN \/ last'.op = "UpdateSand" /\ last'.branch \in {"sand_origin_swap", "sand_none"}
           \/ last'.op = "UpdateWater" /\ last'.branch \in {"water_surrounded", "water_stay"}
           \/ last'.op = "UpdateWater" /\ last'.branch = "water_origin_swap" /\ noLateral)
       => \A i \in Idx : WorldData'[i].id = WorldData[i].id]_vars

(* ------------------------------- C20 ----------------------------------- *)

\* frames of 0.25 s that take a particle created at the start past the age
\* ceiling of 10 s
DecayFrames == 41

\* a single Smoke or Steam particle in any cell of an otherwise empty grid
InitDecay ==
    \E i \in Idx, sel \in {mat_sel_smoke, mat_sel_steam} :
        InitWith([EmptyWorld EXCEPT ![i] = Placed(sel, <<0, 0>>)], <<0, 0>>, DecayFrames, 0)

NextDecay ==
    \/ UpdateQuarterSecond
    \/ StepDefault
    \/ StepSmoke
    \/ StepSteam
    \/ ResetPass

SpecDecay == InitDecay /\ [][NextDecay]_vars

\* C20: a Smoke or Steam particle, wherever it is in the grid, has been
\* replaced by Empty once frames with dt > 0 have been stepped for longer than
\* the age ceiling of 10 s: after DecayFrames frames of 0.25 s the grid that
\* held one such particle holds no Smoke and no Steam.
SmokeDecays ==
    (pc = "idle" /\ last.op = "ResetPass" /\ budget.frames = 0) =>
        \A i \in Idx : WorldData[i].id \notin {mat_id_smoke, mat_id_steam}

(* ------------------------------- C21 ----------------------------------- *)

\* the 8 neighbouring positions CompletelySurrounded tests
NeighbourOffsets ==
    {<<0, -1>>, <<0, 1>>, <<-1, 0>>, <<1, 0>>, <<-1, -1>>, <<1, -1>>, <<-1, 1>>, <<1, 1>>}

\* a Water particle at rest at (x, y), Stone in each of its neighbouring cells
\* and in the cells of S, every other cell Empty; one frame of either parity
InitSurroundedWater ==
    \E x \in 0 .. (textureWidth - 1), y \in 0 .. (textureHeight - 1),
       S \in SUBSET Idx, fc \in {<<0, 0>>, <<0, 1>>} :
        /\ \A i \in S : \A n \in NeighbourOffsets \cup {<<0, 0>>} :
              ~(InBounds(x + n[1], y + n[2]) /\ i = ComputeID(x + n[1], y + n[2]))
        /\ InitWith([i \in Idx |->
                        IF i = ComputeID(x, y) THEN ParticleWater
                        ELSE IF i \in S
                                \/ \E n \in NeighbourOffsets :
                                      /\ InBounds(x + n[1], y + n[2])
                                      /\ i = ComputeID(x + n[1], y + n[2])
                        THEN ParticleStone
                        ELSE ParticleEmpty],
                    fc, 1, 0)

NextSurroundedWater ==
    \/ Update
    \/ StepDefault
    \/ StepWater
    \/ ResetPass

SpecSurroundedWater == InitSurroundedWater /\ [][NextSurroundedWater]_vars

\* C21: when the Water rule reaches its lateral spread stage (the last else of
\* the chain) for a particle none of whose 8 neighbouring positions is Empty
\* (every neighbouring cell of the grid is occupied), the particle is left in
\* its cell: it is not written to any other cell.
SurroundedWaterStays ==
    [][(LET x == last'.at % textureWidth
            y == last'.at \div textureWidth
        IN /\ last'.op = "UpdateWater"
           /\ last'.branch \in {"water_surrounded", "water_spread", "water_stay"}
           /\ \A n \in NeighbourOffsets : ~IsEmpty(Grid, x + n[1], y + n[2]))
       => /\ last'.to = -1
          /\ WorldData'[last'.at].id = mat_id_water]_vars

(* ------------------------------- C22 ----------------------------------- *)

\* C22: when UpdateFire takes its quench branch, the cell of the Fire particle
\* holds Steam afterwards and so does the Water cell that IsInWater found.
QuenchMakesSteam ==
    [][(last'.op = "UpdateFire" /\ last'.branch = "fire_quench")
       => LET iw == IsInWater(Grid, last'.at % textureWidth, last'.at \div textureWidth)
          IN /\ WorldData'[last'.at].id = mat_id_steam
             /\ WorldData'[ComputeID(iw[2], iw[3])].id = mat_id_steam]_vars

(* ------------------------------- C23 ----------------------------------- *)

\* C23: over one frame with time step dt the age of a particle that is in the
\* grid before and after the frame grows by exactly dt, whether or not it
\* moved: when the grid holds a single particle at the start of the frame and a
\* single particle at its end, the life_time of the latter is that of the
\* former plus dt.
AgeAccounting ==
    (pc = "idle" /\ last.op = "ResetPass") =>
        \A i, j \in Idx :
            (/\ LoneAt(frame.pre, i) /\ frame.pre[i].id # mat_id_empty
             /\ LoneAt(WorldData, j) /\ WorldData[j].id # mat_id_empty) =>
                WorldData[j].life_time = frame.pre[i].life_time + dt

(* ------------------------------- C24 ----------------------------------- *)

\* C24: within one scan pass no particle is relocated by its material rule more
\* than once: in a grid that held a single particle when the pass started, a
\* rule invocation that relocates the particle it was called for is called for
\* the cell the particle occupied at the start of the pass.
OneMovePerPass ==
    [][(/\ last'.op \in {"UpdateSand", "UpdateWater", "UpdateFire", "UpdateSmoke",
                         "UpdateSteam"}
        /\ last'.to \notin {-1, last'.at})
       => \A i \in Idx :
             (LoneAt(frame.pre, i) /\ frame.pre[i].id # mat_id_empty) => last'.at = i]_vars

(* ------------------------------- C25 ----------------------------------- *)

\* the last frames before the counter wraps: frameCounter is UINT_MAX - 2 or
\* UINT_MAX - 1 (4294967293, 4294967294), the grid holds a single Sand particle
\* that Place has just written
InitWrap ==
    \E i \in Idx, vel \in PlaceVelDraws, fc \in {<<65535, 65533>>, <<65535, 65534>>} :
        InitWith([EmptyWorld EXCEPT ![i] = Placed(mat_sel_sand, vel)], fc, MaxFrames, 0)

SpecWrap == InitWrap /\ [][NextSandFall]_vars

\* C25: the horizontal scan direction of a call of Update is the opposite of
\* that of the call before it, the wrap of the frame counter included.
ScanAlternates ==
    [][last'.op = "Update" => Ran(frameCounter') # Ran(frameCounter)]_vars

(* ------------------------------- C26 ----------------------------------- *)

\* C26: the rule of a Fire, Smoke or Steam particle never relocates the
\* particle to a row below the one it is in: the cell it is written to lies in
\* the same row or in a row above (a smaller or equal y).
RisingNeverSinks ==
    [][(last'.op \in {"UpdateFire", "UpdateSmoke", "UpdateSteam"} /\ last'.to # -1)
       => last'.to \div textureWidth <= last'.at \div textureWidth]_vars

(* ------------------------------- C27 ----------------------------------- *)

\* a Water velocity whose Length() exceeds that of a Sand particle Place has
\* written by more than 10.f, as the guard of the splash branch requires
FastWaterVel == <<0, 13>>

\* a Sand particle as Place wrote it and a Water particle with that velocity,
\* each in any cell of an otherwise empty grid; one frame
InitSplash ==
    \E i \in Idx, j \in Idx, vel \in PlaceVelDraws :
        /\ i # j
        /\ InitWith([EmptyWorld EXCEPT ![i] = Placed(mat_sel_sand, vel),
                                       ![j] = Placed(mat_sel_water, FastWaterVel)],
                    <<0, 0>>, 1, 0)

NextSplash ==
    \/ Update
    \/ StepDefault
    \/ StepSand
    \/ StepWater
    \/ ResetPass

SpecSplash == InitSplash /\ [][NextSplash]_vars

PlaceInsideBrush ==
    [][last'.op = "Place"
       => \A i \in Idx :
             WorldData'[i] # WorldData[i] =>
                LET dx == (i % textureWidth) - (last'.at % textureWidth)
                    dy == (i \div textureWidth) - (last'.at \div textureWidth)
                IN dx * dx + dy * dy <= selectionRadius * selectionRadius]_vars

(* ------------------------------- C29 ----------------------------------- *)

\* C29: one application of the Sand or Water rule never moves the particle to
\* a cell of its own column with a Stone cell strictly between the cell it
\* left and the cell it is written to.
NoTunnelling ==
    [][(/\ last'.op \in {"UpdateSand", "UpdateWater"}
        /\ last'.to # -1
        /\ last'.to % textureWidth = last'.at % textureWidth)
       => LET y0 == last'.at \div textureWidth
              y1 == last'.to \div textureWidth
          IN \A y \in 0 .. (textureHeight - 1) :
                ((y0 < y /\ y < y1) \/ (y1 < y /\ y < y0))
                => WorldData[ComputeID(last'.at % textureWidth, y)].id # mat_id_stone]_vars

(* ------------------------------- C30 ----------------------------------- *)

\* C30: the checks of the Smoke rule fall through in priority order: a Smoke
\* particle that the rule advances (it has not decayed and was not advanced
\* before in the pass), that is not moved to its velocity target, and whose
\* cell directly above is Empty, is moved into the cell directly above.
SmokeFallsThrough ==
    [][(LET x == last'.at % textureWidth
            y == last'.at \div textureWidth
        IN /\ last'.op = "UpdateSmoke"
           /\ last'.branch \notin {"smoke_decay", "smoke_skip", "smoke_velocity",
                                   "smoke_throw_water"}
           /\ IsEmpty(Grid, x, y - 1))
       => last'.to = last'.at - textureWidth]_vars

(* ------------------------------- C31 ----------------------------------- *)

\* Update called with a timer whose DeltaTime() is as long as DecayFrames
\* frames of 0.25 s: one frame takes every scanned particle past 10 s of age
UpdateAfterStall == UpdateWith(DecayFrames * 250)

\* two Fire particles as Place wrote them, in any two cells of an otherwise
\* empty grid; one frame
InitFlame ==
    \E i \in Idx, j \in Idx :
        /\ i < j
        /\ InitWith([EmptyWorld EXCEPT ![i] = Placed(mat_sel_fire, <<0, 0>>),
                                       ![j] = Placed(mat_sel_fire, <<0, 0>>)],
                    <<0, 0>>, 1, 0)

NextFlame ==
    \/ UpdateAfterStall
    \/ StepDefault
    \/ StepFire
    \/ StepSmoke
    \/ ResetPass

SpecFlame == InitFlame /\ [][NextFlame]_vars

\* C31: the jump branch of the Fire rule relocates the particle only when its
\* age (life_time after the increment of the frame) is strictly between 1 s
\* and 10 s.
JumpAgeWindow ==
    [][(last'.op = "UpdateFire" /\ last'.branch = "fire_jump" /\ last'.to # -1)
       => /\ WorldData[last'.at].life_time + dt' > 1000
          /\ WorldData[last'.at].life_time + dt' < 10000]_vars

(* ------------------------------- C32 ----------------------------------- *)

\* number of cells of the grid w that hold the material m
CountOf(w, m) == Cardinality({i \in Idx : w[i].id = m})

\* the indices of the three cells above (x, y) that the smoke loop writes
AboveCells(x, y) ==
    {ComputeID(x + n, y - 1) : n \in {k \in {-1, 0, 1} : InBounds(x + k, y - 1)}}

\* C32: the particles the Fire rule creates go into Empty cells only.  Smoke
\* appears only in one of the three cells above the Fire particle, which was
\* Empty (or, when the rule then swaps the Fire with such a cell or with a cell
\* that held Smoke, in the cell the Fire left); Steam appears only in cells
\* that were Empty or in the cell of the quenched Fire; and no Sand, Stone,
\* Smoke or Steam particle is lost to the rule, Water only by the quench that
\* empties one Water cell.
CreationIntoEmpty ==
    [][last'.op = "UpdateFire"
       => LET at == last'.at
              to == last'.to
              above == AboveCells(at % textureWidth, at \div textureWidth)
          IN /\ \A i \in Idx :
                   (WorldData'[i].id = mat_id_smoke /\ WorldData[i].id # mat_id_smoke)
                   => \/ i \in above /\ WorldData[i].id = mat_id_empty
                      \/ /\ i = at
                         /\ to # -1
                         /\ \/ WorldData[to].id = mat_id_smoke
                            \/ to \in above /\ WorldData[to].id = mat_id_empty
             /\ \A i \in Idx :
                   (WorldData'[i].id = mat_id_steam /\ WorldData[i].id # mat_id_steam)
                   => (WorldData[i].id = mat_id_empty \/ i = at)
             /\ \A m \in {mat_id_sand, mat_id_stone, mat_id_smoke, mat_id_steam} :
                   CountOf(WorldData', m) >= CountOf(WorldData, m)
             /\ CountOf(WorldData', mat_id_water)
                   >= CountOf(WorldData, mat_id_water)
                      - (IF last'.branch = "fire_quench" THEN 1 ELSE 0)]_vars

\* the smoke loop wrote a particle in a frame that started with a Stone cell in
\* the grid, and the grid holds Smoke
CreationIntoEmptyWitness ==
    /\ last.op = "UpdateFire"
    /\ last.spawned
    /\ \E i \in Idx : frame.pre[i].id = mat_id_stone
    /\ \E i \in Idx : WorldData[i].id = mat_id_smoke

(* ------------------------------- C33 ----------------------------------- *)

\* iterations after which the enumeration of the smoke loop is cut
SmokeLoopCut == 12

\* the smoke loop of UpdateFire, for (uint32_t i = 0; i < RandomVal(1, 10); ++i),
\* whose bound is drawn anew before every iteration: the numbers of iterations
\* after which it can be left, started at i; -1 stands for a loop that still
\* runs after SmokeLoopCut iterations
RECURSIVE SmokeLoopRuns(_)
SmokeLoopRuns(i) ==
    (IF \E b \in 1 .. 10 : ~(i < b) THEN {i} ELSE {})
    \cup (IF \E b \in 1 .. 10 : i < b
          THEN IF i < SmokeLoopCut THEN SmokeLoopRuns(i + 1) ELSE {-1}
          ELSE {})

\* the number of cells the scan loops have still to visit after (x, y): the
\* rows above y and the rest of row y in the direction ran selects
ScanRank(ran, x, y) ==
    y * textureWidth + (IF ran # 0 THEN textureWidth - 1 - x ELSE x)

\* C33: every frame step runs to completion.  The smoke loop of the Fire rule
\* is left after a bounded number of iterations; no command and no rule
\* invocation raises; while the scan pass runs its cursor is on a cell of the
\* grid, every rule invocation returns and moves the cursor to a cell with
\* strictly fewer cells left to visit or ends the pass, and the reset pass ends
\* the frame.
FrameTerminates ==
    [][/\ -1 \notin SmokeLoopRuns(0)
       /\ fault' = FALSE
       /\ pc' # "crashed"
       /\ pc' = "scan" => InBounds(sx', sy')
       /\ pc = "scan" =>
             \/ pc' = "reset"
             \/ /\ pc' = "scan"
                /\ ScanRank(Ran(frameCounter), sx', sy') < ScanRank(Ran(frameCounter), sx, sy)
       /\ pc = "reset" => pc' = "idle"]_vars

\* a frame has run to its end on a grid that held a Fire particle, for which
\* the Fire rule was invoked
FrameTerminatesWitness ==
    /\ pc = "idle"
    /\ last.op = "ResetPass"
    /\ \E i \in Idx : frame.pre[i].id = mat_id_fire /\ frame.visits[i] = 1


(* ------------------ C34: Sand moves by velocity into Empty -------------- *)

\* a Sand and a Water particle as Place wrote them, each with one of Place's
\* velocity draws and in any cell of an otherwise empty grid, before an odd or
\* an even frame
InitVelocity ==
    \E i \in Idx, j \in Idx, vs \in PlaceVelDraws, vw \in PlaceVelDraws,
       fc \in {<<0, 0>>, <<0, 1>>} :
        /\ i # j
        /\ InitWith([EmptyWorld EXCEPT ![i] = Placed(mat_sel_sand, vs),
                                       ![j] = Placed(mat_sel_water, vw)],
                    fc, MaxFrames, 0)

NextVelocity ==
    \/ Update
    \/ StepDefault
    \/ StepSand
    \/ StepWater
    \/ ResetPass

SpecVelocity == InitVelocity /\ [][NextVelocity]_vars

\* the bound on a Water particle's velocity that UpdateWater's clamp, Place's
\* draw and the throws of the Smoke and Steam rules maintain
WaterSpeedBounded(w) ==
    \A i \in Idx : w[i].id = mat_id_water =>
        /\ w[i].vx >= -2000 /\ w[i].vx <= 2000
        /\ w[i].vy >= -10000 /\ w[i].vy <= 10000

\* C34: in every reachable state each Water particle has |vx| <= 2 and
\* |vy| <= 10, and whenever the Sand rule takes its velocity-projected branch
\* the target cell was Empty: the branch that throws Water out of the target
\* is never taken
SandVelocityIntoEmpty ==
    [][/\ WaterSpeedBounded(WorldData)
       /\ (last'.op = "UpdateSand" /\ last'.branch \in {"sand_velocity", "sand_splash"})
            => /\ last'.branch = "sand_velocity"
               /\ last'.to # last'.at
               /\ WorldData[last'.to].id = mat_id_empty
               /\ WorldData'[last'.to].id = mat_id_sand
               /\ WorldData'[last'.at].id = mat_id_empty]_vars

\* a Sand particle has just moved by its velocity while a moving Water particle
\* is in the grid
SandVelocityIntoEmptyWitness ==
    /\ last.op = "UpdateSand"
    /\ last.branch = "sand_velocity"
    /\ WorldData[last.to].id = mat_id_sand
    /\ \E i \in Idx : WorldData[i].id = mat_id_water /\ WorldData[i].vy # 0


(* ----------- C35: the simulation conserves Sand and Stone --------------- *)

\* a step of the simulation: the start of a frame, a rule invocation of the
\* scan pass or the reset pass (Place, Erase and the keys act between frames)
SimStep == pc # "idle" \/ pc' # "idle"

\* C35: a simulation step leaves the number of Sand particles and the number
\* of Stone particles in the grid unchanged
SandStoneConserved ==
    [][SimStep =>
          /\ CountOf(WorldData', mat_id_sand) = CountOf(WorldData, mat_id_sand)
          /\ CountOf(WorldData', mat_id_stone) = CountOf(WorldData, mat_id_stone)]_vars


\* a frame has ended in which a Sand particle left its cell, in a grid that
\* held one Sand and one Stone particle when the frame began
SandStoneConservedWitness ==
    /\ pc = "idle"
    /\ last.op = "ResetPass"
    /\ CountOf(start, mat_id_sand) = 1
    /\ CountOf(start, mat_id_stone) = 1
    /\ CountOf(WorldData, mat_id_sand) = 1
    /\ CountOf(WorldData, mat_id_stone) = 1
    /\ \E i \in Idx : start[i].id = mat_id_sand /\ WorldData[i].id # mat_id_sand


(* ------------- C36: no spontaneous creation without Fire ---------------- *)

\* C36: a simulation step taken in a grid that holds no Fire does not increase
\* the number of particles of any material: the number of Water particles is
\* unchanged, the numbers of Smoke and of Steam particles do not grow, no Fire
\* appears, and an all-Empty grid stays all-Empty
NoCreationWithoutFire ==
    [][(SimStep /\ CountOf(WorldData, mat_id_fire) = 0)
          => /\ \A m \in Materials \ {mat_id_empty} :
                    CountOf(WorldData', m) <= CountOf(WorldData, m)
             /\ CountOf(WorldData', mat_id_water) = CountOf(WorldData, mat_id_water)
             /\ CountOf(WorldData', mat_id_fire) = 0
             /\ CountOf(WorldData, mat_id_empty) = NCells
                    => CountOf(WorldData', mat_id_empty) = NCells]_vars


\* a Smoke particle has just been relocated in a frame that began without
\* Fire, in a grid that also holds a Water particle
NoCreationWithoutFireWitness ==
    /\ last.op = "UpdateSmoke"
    /\ last.to # -1
    /\ CountOf(start, mat_id_fire) = 0
    /\ CountOf(WorldData, mat_id_fire) = 0
    /\ CountOf(WorldData, mat_id_smoke) = 1
    /\ CountOf(WorldData, mat_id_water) = 1


(* ------- C37: linearization in the earlier snapshot (part_001) ---------- *)

\* the grid of the earlier snapshot: constexpr int textureWidth = 800,
\* textureHeight = 600
snapshotTextureWidth == 800
snapshotTextureHeight == 600

\* compute_idx(x, y) of the snapshot
compute_idx(x, y) == y * snapshotTextureWidth + x

\* in_bounds(x, y) of the snapshot
in_bounds(x, y) ==
    ~(x < 0 \/ x > snapshotTextureWidth - 1 \/ y < 0 \/ y > snapshotTextureHeight - 1)

\* the conversion of an int argument to the uint8_t parameter idx
ToUint8(n) == n % 256

\* the size of worldData and of colorData: the snapshot declares the two
\* vectors empty and only ever calls clear() and reserve() on them
snapshotDataSize == 0

\* write_data(uint8_t idx, Particle p) called with the int n: the index that
\* worldData.at(idx) and colorData.at(idx) address
write_data(n) == ToUint8(n)

\* std::vector::at throws std::out_of_range for an index not below size()
at_raises(idx) == ~(idx < snapshotDataSize)

\* one call write_data(compute_idx(x, y), p) for an in-bounds (x, y), as the
\* erase loop and the rules of the snapshot make it
SnapshotWrite ==
    /\ budget.edits > 0
    /\ \E x \in 0 .. (snapshotTextureWidth - 1), y \in 0 .. (snapshotTextureHeight - 1) :
        /\ in_bounds(x, y)
        /\ query' = [op |-> "write_data", x |-> x, y |-> y,
                     raised |-> at_raises(write_data(compute_idx(x, y))),
                     value |-> write_data(compute_idx(x, y)), reads |-> {}]
    /\ budget' = [budget EXCEPT !.edits = @ - 1]
    /\ UNCHANGED <<WorldData, ColorData, fault, selectedMaterial, frameCounter, pc,
                   sx, sy, dt, last, frame, start>>

InitSnapshot == InitWith(EmptyWorld, <<0, 0>>, 0, 1)

SpecSnapshot == InitSnapshot /\ [][SnapshotWrite]_vars

\* C37: for every in-bounds (x, y) of the 800x600 grid of the snapshot,
\* write_data called with compute_idx(x, y) addresses index y * width + x of
\* worldData and colorData: the index is not reduced modulo 256.
SnapshotStoresAtIndex ==
    query.op = "write_data"
        => query.value = query.y * snapshotTextureWidth + query.x

====
